---- MODULE Spec2Model ----
(***************************************************************************)
(* Model of readonce.ReadOnce (src/src/readonce.py) and of the concrete    *)
(* secret types of src/tests/conftest.py.                                  *)
(*                                                                         *)
(* ReadOnce keeps its three fields (__secrets, __is_consumed, __key) as    *)
(* CLASS attributes and updates them through classmethods, which bind to   *)
(* type(self).  The state of the program is therefore one attribute        *)
(* dictionary per class, not per instance; an instance reads a field by    *)
(* the usual lookup (its class first, then the base class ReadOnce).       *)
(***************************************************************************)
EXTENDS Integers, Sequences, FiniteSets, TLC

\* ------------------------------------------------------------- bounds
\* Instances built in a run, and internal helpers run from outside in a run
\* (by a caller bearing an allowed name).
MaxObjects == 2
MaxOutsideHelpers == 1

\* ------------------------------------------------------ Python values
\* A Python value: a str (its code points), an int, a bool, a bytes key, a
\* list, an instance __dict__ (its names), a bound method, None.
PyStr(cps) == [t |-> "str", items |-> cps, n |-> 0]
PyInt(i) == [t |-> "int", items |-> <<>>, n |-> i]
PyBool(b) == [t |-> "bool", items |-> <<>>, n |-> IF b THEN 1 ELSE 0]
PyBytes(k) == [t |-> "bytes", items |-> <<>>, n |-> k]
PyList(xs) == [t |-> "list", items |-> xs, n |-> 0]
PyDict(names) == [t |-> "dict", items |-> names, n |-> 0]
PyMethod(name) == [t |-> "method", items |-> <<name>>, n |-> 0]
None == [t |-> "NoneType", items |-> <<>>, n |-> 0]

\* "awésome_" (8 characters; the third is two UTF-8 bytes), a lone
\* surrogate "\ud800" (not encodable as UTF-8), and the integer 3306.
SecretValues ==
    { PyStr(<<97, 119, 233, 115, 111, 109, 101, 95>>),
      PyStr(<<55296>>),
      PyInt(3306) }

\* str(): decimal digits of an int, the string itself for a str.
RECURSIVE Digits(_)
Digits(i) ==
    IF i < 10 THEN <<48 + i>> ELSE Digits(i \div 10) \o <<48 + (i % 10)>>

str(v) ==
    IF v.t = "str" THEN v.items
    ELSE IF v.n < 0 THEN <<45>> \o Digits(0 - v.n) ELSE Digits(v.n)

\* bytes(s, encoding="utf-8"): UnicodeEncodeError on a surrogate code point.
IsSurrogate(cp) == cp >= 55296 /\ cp <= 57343

CanEncode(s) == \A i \in 1..Len(s) : ~IsSurrogate(s[i])

EncodeChar(cp) ==
    IF cp < 128 THEN <<cp>>
    ELSE IF cp < 2048 THEN <<192 + (cp \div 64), 128 + (cp % 64)>>
    ELSE <<224 + (cp \div 4096), 128 + ((cp \div 64) % 64), 128 + (cp % 64)>>

RECURSIVE Utf8Encode(_)
Utf8Encode(s) ==
    IF s = <<>> THEN <<>> ELSE EncodeChar(Head(s)) \o Utf8Encode(Tail(s))

\* bytes.decode(encoding="utf-8") of well-formed UTF-8.
RECURSIVE Utf8Decode(_)
Utf8Decode(b) ==
    IF b = <<>> THEN <<>>
    ELSE IF b[1] < 128 THEN <<b[1]>> \o Utf8Decode(SubSeq(b, 2, Len(b)))
    ELSE IF b[1] < 224
         THEN <<(b[1] - 192) * 64 + (b[2] - 128)>>
              \o Utf8Decode(SubSeq(b, 3, Len(b)))
    ELSE <<(b[1] - 224) * 4096 + (b[2] - 128) * 64 + (b[3] - 128)>>
         \o Utf8Decode(SubSeq(b, 4, Len(b)))

\* ------------------------------------------------------------- Fernet
\* A key is a positive number; NoKey is Python's None.  generate_key()
\* returns a key that differs from every key in use (below).
NoKey == 0

\* Fernet(key): ValueError unless key is a well-formed Fernet key.
ValidKey(k) == k > 0

\* Fernet(key).encrypt(data): a token only the same key decrypts.
encrypt(k, data) == [key |-> k, data |-> data]

\* Fernet(key).decrypt(token): InvalidToken under any other key.
decrypt(k, token) ==
    IF token.key = k THEN [exc |-> "", data |-> token.data]
    ELSE [exc |-> "InvalidToken", data |-> <<>>]

\* ------------------------------------------------------------ classes
Base == "ReadOnce"
Classes == {"ReadOnce", "Password", "DBPort"}
Attrs == {"secrets", "is_consumed", "key"}

UOE == "UnsupportedOperationException"

VARIABLES
    klass,      \* class -> [own, secrets, is_consumed, key]: the class dicts
    objs,       \* the instances built so far: objs[i] = [cls, dict]
    handedOut,  \* history: instances whose get_secret() returned a plaintext
    helped,     \* history: number of internal helpers run from outside
    last,       \* the last call made and its outcome
    types,      \* the classes defined so far: name -> [bases, meta]
    frames      \* thread -> the add_secret / get_secret call it is inside

vars == <<klass, objs, handedOut, helped, last, types, frames>>

\* The class attributes of the class statement (readonce.py:44-46); a
\* subclass has none of its own until a classmethod assigns one.
ClassBody == [own |-> Attrs, secrets |-> <<>>, is_consumed |-> FALSE, key |-> NoKey]
NoAttrs == [own |-> {}, secrets |-> <<>>, is_consumed |-> FALSE, key |-> NoKey]

\* The interpreter state the methods work on.
State == [klass |-> klass]

\* Attribute lookup on an instance of class c: c's own attribute, else the
\* one inherited from ReadOnce.
Owner(st, c, a) == IF a \in st.klass[c].own THEN c ELSE Base
Lookup(st, c, a) == st.klass[Owner(st, c, a)][a]

\* Outcome of a call: the state it leaves, the exception raised ("" if it
\* returned), the value returned.
Return(st, v) == [st |-> st, exc |-> "", ret |-> v]
Raise(st, e) == [st |-> st, exc |-> e, ret |-> None]

\* ------------------------------------------------------------ threads
\* Threads that call add_secret / get_secret on one container at a time.
MaxThreads == 2
Threads == 1..MaxThreads

\* The frame of a call in progress: the method, the line it is about to
\* run, its argument, and its locals (key_ or fernet's key, and token).
\* Idle: the thread is inside no call.
NoToken == [key |-> NoKey, data |-> <<>>]
Idle == [op |-> "", pc |-> 0, secret |-> None, key |-> NoKey, token |-> NoToken]

\* ------------------------------------------------- the metaclass Final
\* A class statement `class name(*bases)`, given the classes ts defined so
\* far; its outcome is the classes defined after it and the exception
\* raised ("" if the class was created).
Defined(ts, name, bases, meta) ==
    [types |-> ts @@ (name :> [bases |-> bases, meta |-> meta]), exc |-> ""]
Refused(ts, e) == [types |-> ts, exc |-> e]

\* type.__new__: TypeError on a base listed twice.
type__new__(ts, meta, name, bases) ==
    IF \E i, j \in 1..Len(bases) : i # j /\ bases[i] = bases[j]
    THEN Refused(ts, "TypeError")
    ELSE Defined(ts, name, bases, meta)

\* A variant of Final.__new__ that accepts every base whose metaclass is
\* Final (an issubclass test in place of the identity test).
Final__new__subclass_test(ts, name, bases) ==
    IF \E i \in 1..Len(bases) : ts[bases[i]].meta # "Final"
    THEN Refused(ts, "TypeError")
    ELSE type__new__(ts, "Final", name, bases)

\* Final.__new__, lines 20-25.
Final__new__(ts, name, bases) ==
    IF \E i \in 1..Len(bases) : bases[i] # Base
    THEN Refused(ts, "TypeError")
    ELSE type__new__(ts, "Final", name, bases)

\* The metaclass of a class statement without a metaclass keyword: Final
\* when a base has it, else type.
metaclass(ts, bases) ==
    IF \E i \in 1..Len(bases) : ts[bases[i]].meta = "Final"
    THEN "Final" ELSE "type"

class_statement(ts, name, bases) ==
    IF metaclass(ts, bases) = "Final" THEN Final__new__(ts, name, bases)
    ELSE type__new__(ts, "type", name, bases)

\* The classes that exist once readonce.py and conftest.py are imported.
ImportedTypes ==
    [t \in Classes \cup {"object"} |->
        IF t = "object" THEN [bases |-> <<>>, meta |-> "type"]
        ELSE IF t = Base THEN [bases |-> <<>>, meta |-> "Final"]
        ELSE [bases |-> <<Base>>, meta |-> "Final"]]

\* --------------------------------------------- ReadOnce: classmethods
\* Each is a classmethod: cls is type(self), so the assignment lands in
\* the dictionary of the instance's concrete class.
\* A variant of __reset_secrets that leaves the list as it is.
reset_secrets_keeps_list(st, cls) ==
    [st EXCEPT !.klass[cls].own = @ \cup {"secrets"}]

reset_secrets(st, cls) ==
    [st EXCEPT !.klass[cls].secrets = <<>>,
               !.klass[cls].own = @ \cup {"secrets"}]

reset_is_consumed(st, cls) ==
    [st EXCEPT !.klass[cls].is_consumed = FALSE,
               !.klass[cls].own = @ \cup {"is_consumed"}]

\* A variant of __reset_key that leaves the key as it is.
reset_key_keeps_key(st, cls) ==
    [st EXCEPT !.klass[cls].own = @ \cup {"key"}]

reset_key(st, cls) ==
    [st EXCEPT !.klass[cls].key = NoKey,
               !.klass[cls].own = @ \cup {"key"}]

update_is_consumed(st, cls) ==
    [st EXCEPT !.klass[cls].is_consumed = TRUE,
               !.klass[cls].own = @ \cup {"is_consumed"}]

update_key(st, cls, k) ==
    [st EXCEPT !.klass[cls].key = k,
               !.klass[cls].own = @ \cup {"key"}]

\* ------------------------------------------------- ReadOnce: methods
\* __len__: len(self.__secrets).
__len__(st, cls) == Len(Lookup(st, cls, "secrets"))

\* The class invariant icontract checks around every public method.
invariant(st, cls) == __len__(st, cls) = 0 \/ __len__(st, cls) = 1

\* A variant of ReadOnce.__init__ whose resets reach every class that
\* has the attributes of its own.
init_resets_every_type(st, cls) ==
    [klass |-> [c \in Classes |->
        IF c = cls \/ st.klass[c].own # {}
        THEN [own |-> Attrs, secrets |-> <<>>, is_consumed |-> FALSE, key |-> NoKey]
        ELSE st.klass[c]]]

\* ReadOnce.__init__: the three resets (its postcondition reads the fields
\* from a lambda, where __getattribute__ masks them, so it always passes).
__init__(st, cls) == reset_key(reset_is_consumed(reset_secrets(st, cls), cls), cls)

\* The keys in use: held as a class's key or inside a stored token.
KeysInUse(st) ==
    {st.klass[c].key : c \in Classes}
    \cup UNION {{st.klass[c].secrets[i].key : i \in 1..Len(st.klass[c].secrets)} :
                c \in Classes}

\* Fernet.generate_key(): a fresh random key, named here by the least
\* number that names no key in use.
generate_key(st) ==
    CHOOSE k \in 1..(Cardinality(KeysInUse(st)) + 1) :
        /\ k \notin KeysInUse(st)
        /\ \A j \in 1..(k - 1) : j \in KeysInUse(st)

\* self.__secrets.append(token): appends to the list object the lookup finds.
append_secret(st, cls, token) ==
    [st EXCEPT !.klass[Owner(st, cls, "secrets")].secrets = Append(@, token)]

\* self.__secrets.pop(): removes the last element of that list object.
pop_secret(st, cls) ==
    [st EXCEPT !.klass[Owner(st, cls, "secrets")].secrets =
                   SubSeq(@, 1, Len(@) - 1)]

\* A variant of add_secret that leaves a secret already stored in place
\* (first write wins).
add_secret_keeps_first(st, cls, secret) ==
    IF Lookup(st, cls, "is_consumed") THEN Raise(st, UOE)
    ELSE IF Lookup(st, cls, "secrets") # <<>> THEN Return(st, None)
    ELSE
      LET secret_ == str(secret)
          key_ == generate_key(st)
      IN  IF ~CanEncode(secret_) THEN Raise(st, "UnicodeEncodeError")
          ELSE Return(append_secret(update_key(st, cls, key_), cls,
                                    encrypt(key_, Utf8Encode(secret_))), None)

\* ReadOnce.add_secret, lines 76-95.
add_secret(st, cls, secret) ==
    IF Lookup(st, cls, "is_consumed") THEN Raise(st, UOE)
    ELSE
      LET secret_ == str(secret)
          s1 == reset_key(reset_secrets(st, cls), cls)
          key_ == generate_key(s1)
      IN  IF ~CanEncode(secret_) THEN Raise(s1, "UnicodeEncodeError")
          ELSE
            LET token == encrypt(key_, Utf8Encode(secret_))
                s3 == update_key(s1, cls, key_)
            IN  IF Lookup(s3, cls, "key") = NoKey THEN Raise(s3, UOE)
                ELSE Return(append_secret(s3, cls, token), None)

\* A variant of get_secret that marks the container consumed before it
\* looks for a ciphertext.
get_secret_marks_first(st, cls, function_name) ==
    IF function_name = "default" THEN Raise(st, UOE)
    ELSE IF Lookup(st, cls, "secrets") = <<>>
    THEN Raise(update_is_consumed(st, cls), UOE)
    ELSE
      LET s1 == update_is_consumed(st, cls)
          k == Lookup(s1, cls, "key")
          lst == Lookup(s1, cls, "secrets")
      IN  IF k = NoKey THEN Raise(s1, UOE)
          ELSE IF ~ValidKey(k) THEN Raise(s1, "ValueError")
          ELSE IF decrypt(k, lst[Len(lst)]).exc # ""
               THEN Raise(pop_secret(s1, cls), "InvalidToken")
          ELSE Return(reset_key(pop_secret(s1, cls), cls),
                      PyStr(Utf8Decode(decrypt(k, lst[Len(lst)]).data)))

\* A variant of get_secret without the check of the caller's name.
get_secret_any_caller(st, cls, function_name) ==
    IF Lookup(st, cls, "secrets") # <<>>
    THEN
      LET s1 == update_is_consumed(st, cls)
          k == Lookup(s1, cls, "key")
          lst == Lookup(s1, cls, "secrets")
      IN  IF k = NoKey THEN Raise(s1, UOE)
          ELSE IF ~ValidKey(k) THEN Raise(s1, "ValueError")
          ELSE IF decrypt(k, lst[Len(lst)]).exc # ""
               THEN Raise(pop_secret(s1, cls), "InvalidToken")
          ELSE Return(reset_key(pop_secret(s1, cls), cls),
                      PyStr(Utf8Decode(decrypt(k, lst[Len(lst)]).data)))
    ELSE Raise(st, UOE)

\* ReadOnce.get_secret, lines 97-114.  function_name is the co_name of the
\* frame two levels up (the caller of the icontract wrapper).
get_secret(st, cls, function_name) ==
    IF function_name = "default" THEN Raise(st, UOE)
    ELSE IF Lookup(st, cls, "secrets") # <<>>
    THEN
      LET s1 == update_is_consumed(st, cls)
          k == Lookup(s1, cls, "key")
          lst == Lookup(s1, cls, "secrets")
          token == lst[Len(lst)]
          s2 == pop_secret(s1, cls)
          secret == decrypt(k, token)
      IN  IF k = NoKey THEN Raise(s1, UOE)
          ELSE IF ~ValidKey(k) THEN Raise(s1, "ValueError")
          ELSE IF secret.exc # "" THEN Raise(s2, secret.exc)
          ELSE Return(reset_key(s2, cls), PyStr(Utf8Decode(secret.data)))
    ELSE Raise(st, UOE)

\* A public method under @icontract.invariant: the invariant is checked
\* before the call and, when the call returns, after it.
Checked(st, cls, out) ==
    IF ~invariant(st, cls) THEN Raise(st, "ViolationError")
    ELSE IF out.exc = "" /\ ~invariant(out.st, cls)
         THEN Raise(out.st, "ViolationError")
    ELSE out

\* A variant of __getstate__ that hands the instance __dict__ to pickle.
getstate_returns_dict(st, cls) == Return(st, PyDict(<<>>))

\* __getstate__ / __setstate__: always raise.
__getstate__(st, cls) == Raise(st, UOE)
__setstate__(st, cls) == Raise(st, UOE)

\* ------------------------------------------- ReadOnce: access control
FieldNames == {"_ReadOnce__secrets", "_ReadOnce__is_consumed", "_ReadOnce__key"}
HelperNames ==
    { "_ReadOnce__update_is_consumed", "_ReadOnce__update_key",
      "_ReadOnce__reset_secrets", "_ReadOnce__reset_is_consumed",
      "_ReadOnce__reset_key" }
PropertyNames == {"secrets", "is_consumed", "key"}
MethodNames == {"add_secret", "get_secret"}

\* object.__getattribute__: a property of the type first, then the
\* instance __dict__, then the class attributes and methods.
object_getattribute(st, o, name) ==
    IF name = "secrets" THEN Return(st, PyList(<<>>))
    ELSE IF name = "is_consumed" THEN Return(st, None)
    ELSE IF name = "key" THEN Return(st, None)
    ELSE IF name = "__dict__" THEN Return(st, PyDict(o.dict))
    ELSE IF \E i \in 1..Len(o.dict) : o.dict[i] = name
         THEN Return(st, [t |-> "object", items |-> <<name>>, n |-> 0])
    ELSE IF name = "_ReadOnce__secrets"
         THEN Return(st, PyList(Lookup(st, o.cls, "secrets")))
    ELSE IF name = "_ReadOnce__is_consumed"
         THEN Return(st, PyBool(Lookup(st, o.cls, "is_consumed")))
    ELSE IF name = "_ReadOnce__key"
         THEN Return(st, IF Lookup(st, o.cls, "key") = NoKey THEN None
                         ELSE PyBytes(Lookup(st, o.cls, "key")))
    ELSE IF name \in HelperNames \cup MethodNames THEN Return(st, PyMethod(name))
    ELSE Raise(st, "AttributeError")

\* A variant of __getattribute__ that masks the fields and guards no helper.
getattribute_fields_only(st, o, name, function_name) ==
    IF name = "_ReadOnce__secrets"
       /\ function_name \notin {"add_secret", "get_secret", "__len__"}
    THEN Return(st, PyList(<<>>))
    ELSE IF name \in {"_ReadOnce__is_consumed", "_ReadOnce__key"}
       /\ function_name \notin {"add_secret", "get_secret", "__init__"}
    THEN Return(st, None)
    ELSE object_getattribute(st, o, name)

\* ReadOnce.__getattribute__, lines 128-179.  function_name is the co_name
\* of the calling frame.
__getattribute__(st, o, name, function_name) ==
    IF name = "_ReadOnce__secrets"
       /\ function_name \notin {"add_secret", "get_secret", "__len__"}
    THEN Return(st, PyList(<<>>))
    ELSE IF name = "_ReadOnce__is_consumed"
       /\ function_name \notin {"add_secret", "get_secret", "__init__"}
    THEN Return(st, None)
    ELSE IF name = "_ReadOnce__key"
       /\ function_name \notin {"add_secret", "get_secret", "__init__"}
    THEN Return(st, None)
    ELSE IF name = "_ReadOnce__update_is_consumed"
       /\ function_name \notin {"get_secret"}
    THEN Raise(st, UOE)
    ELSE IF name = "_ReadOnce__reset_secrets"
       /\ function_name \notin {"add_secret", "__init__"}
    THEN Raise(st, UOE)
    ELSE IF name = "_ReadOnce__reset_is_consumed"
       /\ function_name \notin {"__init__"}
    THEN Raise(st, UOE)
    ELSE IF name = "_ReadOnce__reset_key"
       /\ function_name \notin {"get_secret", "add_secret", "__init__"}
    THEN Raise(st, UOE)
    ELSE IF name = "_ReadOnce__update_key"
       /\ function_name \notin {"add_secret"}
    THEN Raise(st, UOE)
    ELSE object_getattribute(st, o, name)

\* A variant of __setattr__ that ends in object.__setattr__: an unguarded
\* name is stored in the instance __dict__.
setattr_stores(o, name, function_name) ==
    IF name = "_ReadOnce__secrets"
       /\ function_name \notin {"add_secret", "__init__"}
    THEN [exc |-> UOE, o |-> o]
    ELSE IF name = "_ReadOnce__is_consumed"
       /\ function_name \notin {"get_secret", "__init__"}
    THEN [exc |-> UOE, o |-> o]
    ELSE IF name = "_ReadOnce__key"
       /\ function_name \notin {"get_secret", "add_secret", "__init__"}
    THEN [exc |-> UOE, o |-> o]
    ELSE IF \E i \in 1..Len(o.dict) : o.dict[i] = name
    THEN [exc |-> "", o |-> o]
    ELSE [exc |-> "", o |-> [o EXCEPT !.dict = Append(@, name)]]

\* ReadOnce.__setattr__, lines 181-203: raises on a guarded name, and
\* otherwise returns without storing anything (it never calls
\* object.__setattr__).  The result is the instance as the call leaves it.
__setattr__(o, name, function_name) ==
    IF name = "_ReadOnce__secrets"
       /\ function_name \notin {"add_secret", "__init__"}
    THEN [exc |-> UOE, o |-> o]
    ELSE IF name = "_ReadOnce__is_consumed"
       /\ function_name \notin {"get_secret", "__init__"}
    THEN [exc |-> UOE, o |-> o]
    ELSE IF name = "_ReadOnce__key"
       /\ function_name \notin {"get_secret", "add_secret", "__init__"}
    THEN [exc |-> UOE, o |-> o]
    ELSE [exc |-> "", o |-> o]

\* An internal helper invoked by name on an instance: the attribute is
\* fetched through __getattribute__, then the classmethod runs on type(o).
\* ForgedKey is b"new key", which is no well-formed Fernet key.
ForgedKey == -1

call_helper(st, o, name, function_name) ==
    LET m == __getattribute__(st, o, name, function_name)
    IN  IF m.exc # "" THEN m
        ELSE IF name = "_ReadOnce__update_is_consumed"
             THEN Return(update_is_consumed(st, o.cls), None)
        ELSE IF name = "_ReadOnce__update_key"
             THEN Return(update_key(st, o.cls, ForgedKey), None)
        ELSE IF name = "_ReadOnce__reset_secrets"
             THEN Return(reset_secrets(st, o.cls), None)
        ELSE IF name = "_ReadOnce__reset_is_consumed"
             THEN Return(reset_is_consumed(st, o.cls), None)
        ELSE Return(reset_key(st, o.cls), None)

\* ------------------------------------------------ ReadOnce: the views
\* "ReadOnce[secrets=*****]": __class__ is ReadOnce whatever type(self) is.
ClassNameChars(cls) ==
    IF cls = "ReadOnce" THEN <<82, 101, 97, 100, 79, 110, 99, 101>>
    ELSE IF cls = "Password" THEN <<80, 97, 115, 115, 119, 111, 114, 100>>
    ELSE <<68, 66, 80, 111, 114, 116>>

MaskChars == <<91, 115, 101, 99, 114, 101, 116, 115, 61, 42, 42, 42, 42, 42, 93>>

\* A variant of __str__ that names type(self).
str_names_type(st, cls) == PyStr(ClassNameChars(cls) \o MaskChars)

__str__(st, cls) == PyStr(ClassNameChars(Base) \o MaskChars)
__repr__(st, cls) == PyStr(ClassNameChars(Base) \o MaskChars)
__dir__(st, cls) == PyList(<<>>)

\* ---------------------------------------------- the concrete classes
\* Password.__init__ (conftest.py:22-30): precondition len(password) > 7,
\* super().__init__(), add_secret, postcondition len(self) == 1.
Password__init__(st, password) ==
    IF password.t # "str" THEN Raise(st, "TypeError")
    ELSE IF ~(Len(password.items) > 7) THEN Raise(st, "ViolationError")
    ELSE
      LET s1 == __init__(st, "Password")
          out == Checked(s1, "Password", add_secret(s1, "Password", password))
      IN  IF out.exc = "" /\ __len__(out.st, "Password") # 1
          THEN Raise(out.st, "ViolationError")
          ELSE out

\* ReadOnce(): ReadOnce.__init__ alone, then the class invariant.
ReadOnce__init__(st) ==
    LET s1 == __init__(st, Base)
    IN  IF ~invariant(s1, Base) THEN Raise(s1, "ViolationError")
        ELSE Return(s1, None)

\* DBPort.__init__ (conftest.py:39-42).
DBPort__init__(st, port) ==
    LET s1 == __init__(st, "DBPort")
    IN  Checked(s1, "DBPort", add_secret(s1, "DBPort", port))

\* ------------------------------------------------------- the program
\* Names a calling function can have (frame.f_code.co_name): a test, a
\* JSON encoder's default hook, a lambda, and functions that bear the name
\* of one of the container's own methods.
CallerNames ==
    {"test", "default", "<lambda>", "add_secret", "get_secret", "__init__", "__len__"}

\* The callers the model lets write: one name outside every allow-list of
\* __getattribute__ and __setattr__, __len__ (allowed to read only), and the
\* three names the write allow-lists hold.
WriterNames == {"test", "__len__", "add_secret", "get_secret", "__init__"}

\* The callers that bear none of the names add_secret, get_secret, __init__.
OutsideNames == CallerNames \ {"add_secret", "get_secret", "__init__"}

\* Of these, the ones the model lets invoke a helper: a name in no
\* allow-list and the one name that is in a read allow-list only.
OutsideCallers == OutsideNames \cap WriterNames

\* Assignments made on an instance from outside, <<name, caller>>: a
\* guarded field from any writer, another name (a method, a property, a
\* dataclass field) from a test.
AssignedNames == FieldNames \cup MethodNames \cup {"secrets", "password"}
Assignments ==
    (FieldNames \X WriterNames) \cup ((AssignedNames \ FieldNames) \X {"test"})

Objects == 1..Len(objs)

\* The record of a call: the method, the instance (0: none), the argument,
\* the exception raised ("" if it returned) and the value returned.
Call(op, self, arg, out) ==
    [op |-> op, self |-> self, arg |-> arg, exc |-> out.exc, ret |-> out.ret]

Init ==
    /\ klass = [c \in Classes |-> IF c = Base THEN ClassBody ELSE NoAttrs]
    /\ objs = <<>>
    /\ handedOut = {}
    /\ helped = 0
    /\ last = Call("import", 0, None, Return(State, None))
    /\ types = ImportedTypes
    /\ frames = [t \in Threads |-> Idle]

\* The effect of a constructor call of class c with outcome out: the
\* instance exists for the caller only if __init__ returned.
Construct(c, arg, out) ==
    /\ klass' = out.st.klass
    /\ objs' = IF out.exc = "" THEN Append(objs, [cls |-> c, dict |-> <<>>]) ELSE objs
    /\ last' = Call("__init__", IF out.exc = "" THEN Len(objs) + 1 ELSE 0, arg, out)
    /\ UNCHANGED <<handedOut, helped, types, frames>>

\* Password(password)
NewPassword(password) ==
    /\ Len(objs) < MaxObjects
    /\ Construct("Password", password, Password__init__(State, password))

\* DBPort(port)
NewDBPort(port) ==
    /\ Len(objs) < MaxObjects
    /\ Construct("DBPort", port, DBPort__init__(State, port))

\* ReadOnce()
NewReadOnce ==
    /\ Len(objs) < MaxObjects
    /\ Construct(Base, None, ReadOnce__init__(State))

\* objs[i].add_secret(secret)
AddSecret(i, secret) ==
    /\ LET c == objs[i].cls
           out == Checked(State, c, add_secret(State, c, secret))
       IN  /\ klass' = out.st.klass
           /\ last' = Call("add_secret", i, secret, out)
    /\ UNCHANGED <<objs, handedOut, helped, types, frames>>

\* objs[i].get_secret(), called from a function named fn.
GetSecret(i, fn) ==
    /\ LET c == objs[i].cls
           out == Checked(State, c, get_secret(State, c, fn))
       IN  /\ klass' = out.st.klass
           /\ handedOut' = IF out.exc = "" THEN handedOut \cup {i} ELSE handedOut
           /\ last' = Call("get_secret", i, None, out)
    /\ UNCHANGED <<objs, helped, types, frames>>

\* pickle.dumps / pickle.loads reaching objs[i].__getstate__ / __setstate__.
GetState(i) ==
    /\ LET out == Checked(State, objs[i].cls, __getstate__(State, objs[i].cls))
       IN  /\ klass' = out.st.klass
           /\ last' = Call("__getstate__", i, None, out)
    /\ UNCHANGED <<objs, handedOut, helped, types, frames>>

SetState(i) ==
    /\ LET out == Checked(State, objs[i].cls, __setstate__(State, objs[i].cls))
       IN  /\ klass' = out.st.klass
           /\ last' = Call("__setstate__", i, None, out)
    /\ UNCHANGED <<objs, handedOut, helped, types, frames>>

\* pickle.dumps of a composite record whose fields are the containers
\* objs[i], i in fields: pickling the first field reaches its __getstate__,
\* whose exception ends the dump.
PickleRecord(fields) ==
    /\ fields # {}
    /\ LET i == CHOOSE j \in fields : \A k \in fields : j <= k
           out == Checked(State, objs[i].cls, __getstate__(State, objs[i].cls))
       IN  /\ klass' = out.st.klass
           /\ last' = Call("pickle.dumps", i, None, out)
    /\ UNCHANGED <<objs, handedOut, helped, types, frames>>

\* objs[i].<name> = value, from a function named fn.
SetAttr(i, name, fn) ==
    /\ LET out == __setattr__(objs[i], name, fn)
       IN  /\ objs' = [objs EXCEPT ![i] = out.o]
           /\ last' = Call("__setattr__", i, None, [exc |-> out.exc, ret |-> None])
    /\ UNCHANGED <<klass, handedOut, helped, types, frames>>

\* objs[i].<helper>(), from a function named fn.
CallHelper(i, name, fn) ==
    /\ LET out == call_helper(State, objs[i], name, fn)
       IN  /\ out.exc = "" => helped < MaxOutsideHelpers
           /\ klass' = out.st.klass
           /\ helped' = IF out.exc = "" THEN helped + 1 ELSE helped
           /\ last' = Call("helper", i, None, out)
    /\ UNCHANGED <<objs, handedOut, types, frames>>

\* The public interface: constructors, add_secret, get_secret (called by a
\* test or by a JSON encoder's default hook), pickling.
NextAPI ==
    \/ \E s \in SecretValues : NewPassword(s)
    \/ \E s \in SecretValues : NewDBPort(s)
    \/ \E i \in Objects, s \in SecretValues : AddSecret(i, s)
    \/ \E i \in Objects, fn \in {"test", "default"} : GetSecret(i, fn)
    \/ \E i \in Objects : GetState(i)
    \/ \E i \in Objects : SetState(i)
    \/ \E fields \in SUBSET Objects : PickleRecord(fields)

\* The public interface, assignments on an instance from outside, and
\* internal helpers invoked by callers that bear no allowed name.
NextAccess ==
    \/ NextAPI
    \/ \E i \in Objects, a \in Assignments : SetAttr(i, a[1], a[2])
    \/ \E i \in Objects, name \in HelperNames, fn \in OutsideCallers :
           CallHelper(i, name, fn)

\* All of it: the helpers are invoked by callers of any name.
Next ==
    \/ NextAPI
    \/ \E i \in Objects, a \in Assignments : SetAttr(i, a[1], a[2])
    \/ \E i \in Objects, name \in HelperNames, fn \in WriterNames :
           CallHelper(i, name, fn)

SpecAPI == Init /\ [][NextAPI]_vars
SpecAccess == Init /\ [][NextAccess]_vars
Spec == Init /\ [][Next]_vars

\* =========================================================== the claims
\* What instance i holds, as its own methods read it.
Cls(i) == objs[i].cls
SecretsOf(i) == Lookup(State, Cls(i), "secrets")
KeyOf(i) == Lookup(State, Cls(i), "key")
ConsumedOf(i) == Lookup(State, Cls(i), "is_consumed")
Held(i) == <<SecretsOf(i), KeyOf(i), ConsumedOf(i)>>

\* The plaintext of the one token instance i stores.
StoredPlain(i) == PyStr(Utf8Decode(SecretsOf(i)[1].data))

IsEmpty(i) == SecretsOf(i) = <<>> /\ ~ConsumedOf(i)
IsStored(i) == Len(SecretsOf(i)) = 1 /\ KeyOf(i) # NoKey /\ ~ConsumedOf(i)
IsTerminal(i) == SecretsOf(i) = <<>> /\ KeyOf(i) = NoKey /\ ConsumedOf(i)

\* The last call was op and it returned.
Returned(op) == last.op = op /\ last.exc = ""

\* What get_secret(), called by a test on an instance of class c, does when
\* the class dictionaries are k.
Read(k, c) == Checked([klass |-> k], c, get_secret([klass |-> k], c, "test"))

\* That call returns the plaintext instance i stores now.
ReadsBack(k, i) ==
    LET out == Read(k, Cls(i)) IN out.exc = "" /\ out.ret = StoredPlain(i)

\* An instance of class c holds, in the class dictionaries k, exactly one
\* token, which the held key decrypts to the text of secret.
HoldsOnly(k, c, secret) ==
    LET tokens == Lookup([klass |-> k], c, "secrets")
        plain == decrypt(Lookup([klass |-> k], c, "key"), tokens[1])
    IN  /\ Len(tokens) = 1
        /\ plain.exc = ""
        /\ PyStr(Utf8Decode(plain.data)) = PyStr(str(secret))

\* C1: add_secret(s) (alone or inside a constructor) followed by
\* get_secret() returns str(s), and every later get_secret() on that
\* container raises UnsupportedOperationException.
C1_StepReadOnce ==
    /\ \A i \in Objects :
         ((Returned("add_secret") \/ Returned("__init__")) /\ last.self = i
            /\ GetSecret(i, "test"))
         => (last'.exc = "" /\ last'.ret = PyStr(str(last.arg)))
    /\ \A i \in handedOut, fn \in {"test", "default"} :
         GetSecret(i, fn) => last'.exc = UOE

C1_ReadOnce == [][C1_StepReadOnce]_vars

\* C2: once get_secret() has succeeded on a container it stays consumed,
\* without ciphertext and key, and every later add_secret() on it raises
\* UnsupportedOperationException and installs nothing.
C2_StepTerminal ==
    /\ \A i \in handedOut' : IsTerminal(i)'
    /\ \A i \in handedOut, s \in SecretValues :
         AddSecret(i, s) => (last'.exc = UOE /\ klass' = klass)

C2_ConsumedTerminal == [][C2_StepTerminal]_vars

\* C3: after a successful add_secret(s), whatever was stored before, the
\* container holds exactly one secret, the token of s under the held key,
\* and the get_secret() that follows returns str(s).
C3_StepLastWriteWins ==
    /\ (last'.op = "add_secret" /\ last'.exc = "")
       => HoldsOnly(klass', objs[last'.self].cls, last'.arg)
    /\ (Returned("add_secret") /\ GetSecret(last.self, "test"))
       => (last'.exc = "" /\ last'.ret = PyStr(str(last.arg)))

C3_LastWriteWins == [][C3_StepLastWriteWins]_vars

\* The only container, a Password (built with "awésome_", the one value
\* its precondition lets through), has returned "3306": the value of a
\* later add_secret.
C3_Witness ==
    /\ Len(objs) = 1
    /\ Cls(1) = "Password"
    /\ Returned("get_secret")
    /\ last.ret = PyStr(<<51, 51, 48, 54>>)

\* C4: a call on one container (or the construction of one) changes the
\* ciphertext, key and consumed flag of no other container.
C4_StepIndependent ==
    \A i \in Objects : last'.self # i => Held(i)' = Held(i)

C4_Independent == [][C4_StepIndependent]_vars

\* C5: __getstate__, __setstate__ and the pickling of a record that holds
\* containers raise UnsupportedOperationException in every state and change
\* nothing: a stored secret is still what get_secret() returns afterwards.
PickleOps == {"__getstate__", "__setstate__", "pickle.dumps"}

C5_StepPickleDenied ==
    last'.op \in PickleOps
    => /\ last'.exc = UOE
       /\ UNCHANGED <<klass, objs, handedOut>>
       /\ \A i \in Objects :
            IsStored(i) => ReadsBack(klass', i)

C5_PickleDenied == [][C5_StepPickleDenied]_vars

\* A record of a Stored and a Consumed container has just been refused.
C5_Witness ==
    /\ last.op = "pickle.dumps"
    /\ last.exc = UOE
    /\ \E i, j \in Objects : IsStored(i) /\ IsTerminal(j)

\* C6: get_secret() called from a function named default raises
\* UnsupportedOperationException in every state and changes nothing: the
\* container is not marked consumed, keeps its ciphertext and key, and a
\* stored secret is still what a later get_secret() returns.
C6_StepDefaultDenied ==
    \A i \in Objects :
        GetSecret(i, "default")
        => /\ last'.exc = UOE
           /\ UNCHANGED <<klass, objs, handedOut>>
           /\ IsStored(i) => ReadsBack(klass', i)

C6_DefaultDenied == [][C6_StepDefaultDenied]_vars

\* A get_secret() has just been refused on a container that holds a secret.
C6_Witness ==
    /\ last.op = "get_secret"
    /\ last.exc = UOE
    /\ IsStored(last.self)

\* The callers that bear the name of none of the container's own
\* operations (add_secret, get_secret, __init__, __len__).
ViewerNames == {"test", "default", "<lambda>"}

\* "ReadOnce[secrets=*****]"
MaskedText ==
    PyStr(<<82, 101, 97, 100, 79, 110, 99, 101, 91, 115, 101, 99, 114, 101,
            116, 115, 61, 42, 42, 42, 42, 42, 93>>)

\* C7: in every state str() and repr() are "ReadOnce[secrets=*****]", the
\* properties secrets / is_consumed / key are [] / None / None, the three
\* internal fields read from outside the container's own operations are
\* [] / None / None, and dir() and __dict__ are empty.
C7_ViewsConstant ==
    \A i \in Objects :
        /\ __str__(State, Cls(i)) = MaskedText
        /\ __repr__(State, Cls(i)) = MaskedText
        /\ __dir__(State, Cls(i)) = PyList(<<>>)
        /\ \A fn \in CallerNames :
             /\ __getattribute__(State, objs[i], "secrets", fn)
                  = Return(State, PyList(<<>>))
             /\ __getattribute__(State, objs[i], "is_consumed", fn)
                  = Return(State, None)
             /\ __getattribute__(State, objs[i], "key", fn)
                  = Return(State, None)
             /\ __getattribute__(State, objs[i], "__dict__", fn)
                  = Return(State, PyDict(<<>>))
        /\ \A fn \in ViewerNames :
             /\ __getattribute__(State, objs[i], "_ReadOnce__secrets", fn)
                  = Return(State, PyList(<<>>))
             /\ __getattribute__(State, objs[i], "_ReadOnce__is_consumed", fn)
                  = Return(State, None)
             /\ __getattribute__(State, objs[i], "_ReadOnce__key", fn)
                  = Return(State, None)

\* A Password that holds a secret beside a consumed DBPort, after an
\* assignment to one of them.
C7_Witness ==
    /\ \E i, j \in Objects :
         /\ Cls(i) = "Password" /\ IsStored(i)
         /\ Cls(j) = "DBPort" /\ IsTerminal(j)
    /\ Returned("__setattr__")

\* C8: from a caller that bears none of the names add_secret, get_secret,
\* __init__, assigning an internal field and invoking an internal helper
\* raise UnsupportedOperationException and leave the state as it is, in
\* every state; no helper invoked from such a caller has returned.
C8_OutsideDenied ==
    /\ \A i \in Objects, fn \in OutsideNames :
         /\ \A name \in FieldNames :
              __setattr__(objs[i], name, fn) = [exc |-> UOE, o |-> objs[i]]
         /\ \A name \in HelperNames :
              call_helper(State, objs[i], name, fn) = Raise(State, UOE)
    /\ last.op = "helper" => last.exc = UOE
    /\ helped = 0

\* An internal helper has just been refused on a container that holds a
\* secret.
C8_Witness ==
    /\ last.op = "helper"
    /\ last.exc = UOE
    /\ IsStored(last.self)

\* C9: whatever name the calling function has, code outside the container
\* reads [] / None / None for the three internal fields and cannot run an
\* internal helper.
C9_StepOnlyOwnOperations ==
    \A i \in Objects, fn \in CallerNames :
        /\ __getattribute__(State, objs[i], "_ReadOnce__secrets", fn)
             = Return(State, PyList(<<>>))
        /\ __getattribute__(State, objs[i], "_ReadOnce__is_consumed", fn)
             = Return(State, None)
        /\ __getattribute__(State, objs[i], "_ReadOnce__key", fn)
             = Return(State, None)
        /\ \A name \in HelperNames :
             CallHelper(i, name, fn) => (last'.exc = UOE /\ klass' = klass)

C9_OnlyOwnOperations == [][C9_StepOnlyOwnOperations]_vars

\* C10: an assignment on an instance, whatever the name assigned and the
\* caller, stores nothing: every __dict__ stays empty, add_secret and
\* get_secret still resolve to the methods, the class state is unchanged
\* and a stored secret is still what get_secret() returns.
C10_StepAssignmentInert ==
    last'.op = "__setattr__"
    => /\ UNCHANGED <<klass, handedOut>>
       /\ \A i \in Objects : objs'[i].dict = <<>>
       /\ \A m \in MethodNames :
            __getattribute__(State, objs'[last'.self], m, "test")
              = Return(State, PyMethod(m))
       /\ IsStored(last'.self) => ReadsBack(klass', last'.self)

C10_AssignmentInert == [][C10_StepAssignmentInert]_vars

\* get_secret has just been assigned to (the assignment returned) on a
\* container that holds a secret.
C10_Witness ==
    /\ Returned("__setattr__")
    /\ IsStored(last.self)
    /\ objs[last.self].dict = <<>>

\* ------------------------------------------------- class definitions
\* Names of classes defined after the import, and the longest list of
\* bases a class statement gives.
TypeNames == {"DBUri", "TryPassword"}
MaxBases == 2

BaseLists ==
    UNION {[1..n -> DOMAIN types] : n \in 1..MaxBases}

\* class name(*bases): ...
DefineClass(name, bases) ==
    /\ name \notin DOMAIN types
    /\ LET out == class_statement(types, name, bases)
       IN  /\ types' = out.types
           /\ last' = Call("class", 0, PyList(bases), [exc |-> out.exc, ret |-> None])
    /\ UNCHANGED <<klass, objs, handedOut, helped, frames>>

NextTypes == \E name \in TypeNames, bases \in BaseLists : DefineClass(name, bases)

SpecTypes == Init /\ [][NextTypes]_vars

\* t is ReadOnce or has ReadOnce among its ancestors.
RECURSIVE InHierarchy(_, _)
InHierarchy(ts, t) ==
    t = Base \/ \E i \in 1..Len(ts[t].bases) : InHierarchy(ts, ts[t].bases[i])

\* The number of levels t is below ReadOnce (along its longest line).
RECURSIVE Level(_, _)
Level(ts, t) ==
    IF t = Base THEN 0
    ELSE LET up == {Level(ts, ts[t].bases[i]) :
                      i \in {j \in 1..Len(ts[t].bases) :
                               InHierarchy(ts, ts[t].bases[j])}}
         IN  1 + CHOOSE n \in up : \A m \in up : m <= n

\* C11: a class statement whose only base is ReadOnce creates the class; one
\* under the metaclass Final that lists any other base raises TypeError and
\* defines nothing; no class is two or more levels below ReadOnce.
C11_StepOneLevel ==
    /\ \A t \in DOMAIN types : InHierarchy(types, t) => Level(types, t) <= 1
    /\ last'.op = "class"
       => LET bases == last'.arg.items
          IN  /\ bases = <<Base>>
                 => /\ last'.exc = ""
                    /\ \E name \in TypeNames \ DOMAIN types :
                         /\ DOMAIN types' = DOMAIN types \cup {name}
                         /\ types'[name].bases = <<Base>>
              /\ (metaclass(types, bases) = "Final"
                    /\ \E i \in 1..Len(bases) : bases[i] # Base)
                 => (last'.exc = "TypeError" /\ types' = types)

C11_OneLevel == [][C11_StepOneLevel]_vars

\* class TryPassword(Password) has just been refused, after a class was
\* defined directly on ReadOnce.
C11_Witness ==
    /\ last.op = "class"
    /\ last.exc = "TypeError"
    /\ last.arg = PyList(<<"Password">>)
    /\ \E t \in TypeNames \cap DOMAIN types : types[t].bases = <<Base>>

\* C12: len(container) is 0 or 1 in every state: 1 exactly while a secret
\* is stored (one ciphertext, its key, not consumed), 0 exactly while the
\* container is empty or consumed (no ciphertext, no key); it is 1 after
\* every add_secret that returned, however many there were, and 0 after
\* every get_secret that returned.
C12_LenIsPresence ==
    /\ \A i \in Objects :
         LET n == __len__(State, Cls(i))
         IN  /\ n \in {0, 1}
             /\ n = 1 <=> IsStored(i)
             /\ n = 0 <=> (SecretsOf(i) = <<>> /\ KeyOf(i) = NoKey)
    /\ (Returned("add_secret") \/ Returned("__init__"))
       => __len__(State, Cls(last.self)) = 1
    /\ Returned("get_secret") => __len__(State, Cls(last.self)) = 0

\* The only container, a Password, after an add_secret that followed the
\* one of its constructor.
C12_Witness ==
    /\ Len(objs) = 1
    /\ Cls(1) = "Password"
    /\ Returned("add_secret")
    /\ __len__(State, "Password") = 1

\* C13: add_secret on a container that holds a secret either returns, and
\* then the container holds exactly the new secret under its key, or
\* raises, and then the previous ciphertext and key are intact and
\* get_secret() still returns the previous secret.
C13_StepAtomicOverwrite ==
    \A i \in Objects, s \in SecretValues :
        (last'.op = "add_secret" /\ IsStored(i) /\ AddSecret(i, s))
        => IF last'.exc = ""
           THEN HoldsOnly(klass', Cls(i), s)
           ELSE klass' = klass /\ ReadsBack(klass', i)

C13_AtomicOverwrite == [][C13_StepAtomicOverwrite]_vars

\* C14: a get_secret() that finds a ciphertext and then raises (the key is
\* missing, or the token does not decrypt) leaves the consumed flag, the
\* ciphertext and the key as they were before the call.
C14_StepFailedReadInert ==
    \A i \in Objects :
        (last'.op = "get_secret" /\ last'.exc # "" /\ SecretsOf(i) # <<>>
           /\ GetSecret(i, "test"))
        => klass' = klass

C14_FailedReadInert == [][C14_StepFailedReadInert]_vars

\* ------------------------------------------------- empty containers
\* Containers built by ReadOnce() itself, into which the constructor
\* stores nothing, beside containers of a secret type.
NextEmpty ==
    \/ NewReadOnce
    \/ \E s \in SecretValues : NewDBPort(s)
    \/ \E i \in Objects, s \in SecretValues : AddSecret(i, s)
    \/ \E i \in Objects, fn \in {"test", "default"} : GetSecret(i, fn)

SpecEmpty == Init /\ [][NextEmpty]_vars

\* add_secret(secret) and then get_secret(), on an instance of class c
\* when the class dictionaries are k.
AddThenRead(k, c, secret) ==
    LET added == Checked([klass |-> k], c, add_secret([klass |-> k], c, secret))
    IN  IF added.exc # "" THEN added ELSE Read(added.st.klass, c)

\* C15: get_secret() on a container that holds nothing and is not consumed
\* (as a new ReadOnce() is) raises UnsupportedOperationException and leaves
\* it so; add_secret(s) then returns and the get_secret() after it returns
\* str(s).
C15_StepEmptyReadInert ==
    \A i \in Objects, fn \in {"test", "default"} :
        (last'.op = "get_secret" /\ IsEmpty(i) /\ GetSecret(i, fn))
        => /\ last'.exc = UOE
           /\ UNCHANGED <<klass, objs, handedOut>>
           /\ \A s \in SecretValues :
                CanEncode(str(s))
                => /\ AddThenRead(klass', Cls(i), s).exc = ""
                   /\ AddThenRead(klass', Cls(i), s).ret = PyStr(str(s))

C15_EmptyReadInert == [][C15_StepEmptyReadInert]_vars

\* The only container, a new ReadOnce(), has refused a get_secret() and
\* holds nothing, unconsumed.
C15_Witness ==
    /\ Len(objs) = 1
    /\ Cls(1) = Base
    /\ last.op = "get_secret"
    /\ last.exc = UOE
    /\ IsEmpty(1)
    /\ handedOut = {}

\* C16: between sequential calls every container holds a ciphertext and a
\* key or neither, and a held key is the one that decrypts the held
\* ciphertext.
C16_KeyWithCiphertext ==
    \A i \in Objects :
        /\ SecretsOf(i) = <<>> <=> KeyOf(i) = NoKey
        /\ SecretsOf(i) # <<>>
           => \A n \in 1..Len(SecretsOf(i)) :
                decrypt(KeyOf(i), SecretsOf(i)[n]).exc = ""

\* A container that holds a secret beside one that has just been read.
C16_Witness ==
    /\ Returned("get_secret")
    /\ SecretsOf(last.self) = <<>> /\ KeyOf(last.self) = NoKey
    /\ \E i \in Objects : SecretsOf(i) # <<>> /\ KeyOf(i) # NoKey

\* C17: a get_secret() that returns leaves neither ciphertext nor key; in
\* every state a container whose consumed flag is set holds neither, and a
\* container that has handed out its secret never holds a ciphertext or a
\* key again.
C17_StepKeyDestroyed ==
    /\ \A i \in Objects :
         ConsumedOf(i) => (SecretsOf(i) = <<>> /\ KeyOf(i) = NoKey)
    /\ \A i \in handedOut' :
         /\ Lookup([klass |-> klass'], Cls(i), "secrets") = <<>>
         /\ Lookup([klass |-> klass'], Cls(i), "key") = NoKey

C17_KeyDestroyed == [][C17_StepKeyDestroyed]_vars

\* The first half of C17 alone: consumed containers hold nothing, and a
\* get_secret() that has just returned left nothing.
C17_ConsumedHoldsNothing ==
    /\ \A i \in Objects :
         ConsumedOf(i) => (SecretsOf(i) = <<>> /\ KeyOf(i) = NoKey)
    /\ Returned("get_secret") => IsTerminal(last.self)

\* The class dictionaries of the secret types other than c are unchanged
\* by the step, and so is what every container of another type holds.
OtherTypesUnchanged(c) ==
    /\ \A d \in Classes \ {c, Base} : klass'[d] = klass[d]
    /\ \A i \in Objects :
         Cls(i) # c
         => /\ Lookup([klass |-> klass'], Cls(i), "secrets") = SecretsOf(i)
            /\ Lookup([klass |-> klass'], Cls(i), "key") = KeyOf(i)
            /\ Lookup([klass |-> klass'], Cls(i), "is_consumed") = ConsumedOf(i)
            /\ IsStored(i) => ReadsBack(klass', i)

\* C18: constructing a container of one secret type, storing into it or
\* consuming it leaves ciphertext, key and consumed flag of every container
\* of another type unchanged, so that one can still be read once.
C18_StepTypesIndependent ==
    /\ last'.op = "__init__"
       => /\ \A s \in SecretValues : NewPassword(s) => OtherTypesUnchanged("Password")
          /\ \A s \in SecretValues : NewDBPort(s) => OtherTypesUnchanged("DBPort")
    /\ last'.op \in {"add_secret", "get_secret"}
       => OtherTypesUnchanged(Cls(last'.self))

C18_TypesIndependent == [][C18_StepTypesIndependent]_vars

\* A Password has just been read while a DBPort holds its secret.
C18_Witness ==
    /\ Returned("get_secret")
    /\ Cls(last.self) = "Password"
    /\ \E i \in Objects : Cls(i) = "DBPort" /\ IsStored(i)

\* ------------------------------------------- calls that run in threads
\* add_secret and get_secret taken one source line at a time: a thread
\* runs the line its frame points at, and another thread may run between
\* two lines.  The outcome of a line: the state, the frame, and, when the
\* call ends there (done), the exception raised or the value returned.
Goes(st, f) == [st |-> st, f |-> f, done |-> FALSE, exc |-> "", ret |-> None]
Ends(out) == [st |-> out.st, f |-> Idle, done |-> TRUE, exc |-> out.exc, ret |-> out.ret]

\* The keys some call in progress holds in a local.
FrameKeys == UNION {{frames[t].key, frames[t].token.key} : t \in Threads}

\* Fernet.generate_key() while calls are in progress: a key that is neither
\* in use nor held in a local.
FreshKey(st) ==
    LET used == KeysInUse(st) \cup FrameKeys
    IN  CHOOSE k \in 1..(Cardinality(used) + 1) :
            k \notin used /\ \A j \in 1..(k - 1) : j \in used

\* ReadOnce.add_secret, by line: 82 (consumed?), 87, 88 (the resets),
\* 89-90 (token and key), 91 (key present?), 95 (append), 96 (back in the
\* icontract wrapper: the invariant).
add_secret_line(st, cls, f) ==
    IF f.pc = 82
    THEN IF Lookup(st, cls, "is_consumed") THEN Ends(Raise(st, UOE))
         ELSE Goes(st, [f EXCEPT !.pc = 87])
    ELSE IF f.pc = 87 THEN Goes(reset_secrets(st, cls), [f EXCEPT !.pc = 88])
    ELSE IF f.pc = 88 THEN Goes(reset_key(st, cls), [f EXCEPT !.pc = 89])
    ELSE IF f.pc = 89
    THEN IF ~CanEncode(str(f.secret)) THEN Ends(Raise(st, "UnicodeEncodeError"))
         ELSE LET key_ == FreshKey(st)
              IN  Goes(update_key(st, cls, key_),
                       [f EXCEPT !.pc = 91, !.key = key_,
                                 !.token = encrypt(key_, Utf8Encode(str(f.secret)))])
    ELSE IF f.pc = 91
    THEN IF Lookup(st, cls, "key") = NoKey THEN Ends(Raise(st, UOE))
         ELSE Goes(st, [f EXCEPT !.pc = 95])
    ELSE IF f.pc = 95 THEN Goes(append_secret(st, cls, f.token), [f EXCEPT !.pc = 96])
    ELSE IF ~invariant(st, cls) THEN Ends(Raise(st, "ViolationError"))
    ELSE Ends(Return(st, None))

\* ReadOnce.get_secret, by line: 103 (a secret?), 104 (consumed), 105 (key
\* present?), 109 (Fernet(key)), 110 (pop), 111-112 (decrypt, reset the
\* key), 113 (decode, and the invariant of the icontract wrapper).
get_secret_line(st, cls, f) ==
    IF f.pc = 103
    THEN IF Lookup(st, cls, "secrets") # <<>> THEN Goes(st, [f EXCEPT !.pc = 104])
         ELSE Ends(Raise(st, UOE))
    ELSE IF f.pc = 104 THEN Goes(update_is_consumed(st, cls), [f EXCEPT !.pc = 105])
    ELSE IF f.pc = 105
    THEN IF Lookup(st, cls, "key") = NoKey THEN Ends(Raise(st, UOE))
         ELSE Goes(st, [f EXCEPT !.pc = 109])
    ELSE IF f.pc = 109
    THEN IF Lookup(st, cls, "key") = NoKey THEN Ends(Raise(st, "TypeError"))
         ELSE IF ~ValidKey(Lookup(st, cls, "key")) THEN Ends(Raise(st, "ValueError"))
         ELSE Goes(st, [f EXCEPT !.pc = 110, !.key = Lookup(st, cls, "key")])
    ELSE IF f.pc = 110
    THEN IF Lookup(st, cls, "secrets") = <<>> THEN Ends(Raise(st, "IndexError"))
         ELSE Goes(pop_secret(st, cls),
                   [f EXCEPT !.pc = 111,
                             !.token = Lookup(st, cls, "secrets")[Len(Lookup(st, cls, "secrets"))]])
    ELSE IF f.pc = 111
    THEN IF decrypt(f.key, f.token).exc # "" THEN Ends(Raise(st, "InvalidToken"))
         ELSE Goes(reset_key(st, cls), [f EXCEPT !.pc = 113])
    ELSE IF ~invariant(st, cls) THEN Ends(Raise(st, "ViolationError"))
    ELSE Ends(Return(st, PyStr(Utf8Decode(decrypt(f.key, f.token).data))))

\* The effect of one line of thread t's call on objs[i].
RunLine(t, i, f, out) ==
    /\ klass' = out.st.klass
    /\ frames' = [frames EXCEPT ![t] = out.f]
    /\ last' = IF out.done THEN Call(f.op, i, f.secret, out) ELSE last
    /\ handedOut' = IF out.done /\ out.exc = "" /\ f.op = "get_secret"
                    THEN handedOut \cup {i} ELSE handedOut
    /\ UNCHANGED <<objs, helped, types>>

\* Thread t calls objs[i].add_secret(secret): the icontract wrapper checks
\* the invariant and enters the method.
AddCall(t, i, secret) ==
    /\ frames[t] = Idle
    /\ LET f == [Idle EXCEPT !.op = "add_secret", !.pc = 82, !.secret = secret]
       IN  RunLine(t, i, f, IF invariant(State, Cls(i)) THEN Goes(State, f)
                            ELSE Ends(Raise(State, "ViolationError")))

\* Thread t calls objs[i].get_secret().
GetCall(t, i) ==
    /\ frames[t] = Idle
    /\ LET f == [Idle EXCEPT !.op = "get_secret", !.pc = 103]
       IN  RunLine(t, i, f, IF invariant(State, Cls(i)) THEN Goes(State, f)
                            ELSE Ends(Raise(State, "ViolationError")))

\* Thread t runs the next line of its add_secret call on objs[i].
AddLine(t, i) ==
    /\ frames[t].op = "add_secret"
    /\ RunLine(t, i, frames[t], add_secret_line(State, Cls(i), frames[t]))

\* Thread t runs the next line of its get_secret call on objs[i].
GetLine(t, i) ==
    /\ frames[t].op = "get_secret"
    /\ RunLine(t, i, frames[t], get_secret_line(State, Cls(i), frames[t]))

\* One container, built by DBPort(3306), shared by the threads.
InitThreads ==
    LET imported == [klass |-> [c \in Classes |-> IF c = Base THEN ClassBody ELSE NoAttrs]]
        built == DBPort__init__(imported, PyInt(3306))
    IN  /\ klass = built.st.klass
        /\ objs = <<[cls |-> "DBPort", dict |-> <<>>]>>
        /\ handedOut = {}
        /\ helped = 0
        /\ last = Call("__init__", 1, PyInt(3306), built)
        /\ types = ImportedTypes
        /\ frames = [t \in Threads |-> Idle]

NextThreads ==
    \/ \E t \in Threads, s \in SecretValues : AddCall(t, 1, s)
    \/ \E t \in Threads : GetCall(t, 1)
    \/ \E t \in Threads : AddLine(t, 1)
    \/ \E t \in Threads : GetLine(t, 1)

SpecThreads == InitThreads /\ [][NextThreads]_vars

\* C19: over the whole life of a container, under every interleaving of
\* add_secret and get_secret calls on it, at most one get_secret call
\* returns a plaintext.
C19_StepOneHandOut ==
    \A t \in Threads :
        (frames[t].op = "get_secret" /\ frames'[t] = Idle /\ last'.exc = "")
        => handedOut = {}

C19_OneHandOut == [][C19_StepOneHandOut]_vars

\* C20: whenever no call is in progress the container holds nothing and is
\* not consumed, or holds one ciphertext with the key that decrypts it and
\* is not consumed, or holds nothing and is consumed.
C20_LegalAtRest ==
    (\A t \in Threads : frames[t] = Idle)
    => \A i \in Objects :
         \/ SecretsOf(i) = <<>> /\ KeyOf(i) = NoKey
         \/ /\ Len(SecretsOf(i)) = 1
            /\ ~ConsumedOf(i)
            /\ KeyOf(i) # NoKey
            /\ decrypt(KeyOf(i), SecretsOf(i)[1]).exc = ""

====
